---- MODULE Spec2Model ----
(***************************************************************************)
(* War Thunder Guesser: the guess-resolution engine (utils/stringUtils),   *)
(* the seeded target selection (services/apiService) and the game session  *)
(* (components/Game, App).                                                 *)
(*                                                                         *)
(* A string is a sequence of one-character strings, so that the character  *)
(* level code (toLowerCase, split, replace, charAt) is modelled by what it *)
(* does to the characters.                                                 *)
(***************************************************************************)
EXTENDS Integers, Sequences, FiniteSets, Bags, TLC

VARIABLES
    call,   \* the library call a caller makes: function name and arguments
    ret,    \* what that call returned
    runs,   \* the independent runs of fetchMysteryVehicle
    app,     \* the state of the App component
    game,    \* the state of the Game component while it is mounted
    storage, \* localStorage
    pending, \* the bag of fetchMysteryVehicle promises that startGame calls await
    hist,    \* history: what the session has done so far
    api      \* the version of services/apiService the page is built with

vars == <<call, ret, runs, app, game, storage, pending, hist, api>>
sessionVars == <<app, game, storage, pending, hist, api>>
callerVars == <<call, ret, runs, api>>
idleVars == <<call, ret, runs, hist, api>>

\* no library call is being watched
NoCall == [fn |-> "none"]

\* no value yet: the call is still to be made
NoReturn == [pending |-> TRUE]

\* fetchMysteryVehicle is not running
NoRuns == <<>>

----------------------------------------------------------------------------
(* Characters                                                               *)

UpperCase == <<"A","B","C","D","E","F","G","H","I","J","K","L","M",
               "N","O","P","Q","R","S","T","U","V","W","X","Y","Z">>
LowerCase == <<"a","b","c","d","e","f","g","h","i","j","k","l","m",
               "n","o","p","q","r","s","t","u","v","w","x","y","z">>
Digits == {"0","1","2","3","4","5","6","7","8","9"}

Range(f) == {f[i] : i \in DOMAIN f}

IsUpper(c) == c \in Range(UpperCase)
IsLower(c) == c \in Range(LowerCase)
IsDigit(c) == c \in Digits

\* \s of the regular expressions (the blank and the tab stand for the class)
IsSpace(c) == c \in {" ", "\t"}

\* the class [\s\-_/()] of normalize and tokenize
IsSeparator(c) == IsSpace(c) \/ c \in {"-", "_", "/", "(", ")"}

\* the class [a-z0-9] that normalize keeps
IsAlnum(c) == IsLower(c) \/ IsDigit(c)

LowerChar(c) == IF IsUpper(c) THEN LowerCase[CHOOSE i \in DOMAIN UpperCase : UpperCase[i] = c] ELSE c
UpperChar(c) == IF IsLower(c) THEN UpperCase[CHOOSE i \in DOMAIN LowerCase : LowerCase[i] = c] ELSE c

toLowerCase(s) == [i \in DOMAIN s |-> LowerChar(s[i])]
toUpperCase(s) == [i \in DOMAIN s |-> UpperChar(s[i])]

Min(x, y) == IF x <= y THEN x ELSE y
Max(x, y) == IF x >= y THEN x ELSE y

RECURSIVE Concat(_)
\* Array.prototype.join('') of a sequence of strings
Concat(parts) == IF parts = <<>> THEN <<>> ELSE Head(parts) \o Concat(Tail(parts))

\* String.prototype.trim() leaves nothing
IsBlank(s) == \A i \in DOMAIN s : IsSpace(s[i])

----------------------------------------------------------------------------
(* constants.ts                                                             *)

\* Object.prototype.constructor, the one inherited property of the object
\* literal ROMAN_TO_ARABIC whose name a lowercased part can be.  It is a
\* function and no string: a sequence that is no sequence of characters
\* stands for it.
ObjectConstructor == <<"function Object">>

\* String(Object), what join('') makes of the function
FunctionSource ==
    <<"f","u","n","c","t","i","o","n"," ","O","b","j","e","c","t","(",")"," ","{"," ",
      "[","n","a","t","i","v","e"," ","c","o","d","e","]"," ","}">>

\* the string that join('') takes for a part
JoinedPart(part) == IF part = ObjectConstructor THEN FunctionSource ELSE part

\* ROMAN_TO_ARABIC[part] ?? part
RomanToArabic(part) ==
    CASE part = <<"i">>             -> <<"1">>
      [] part = <<"i","i">>         -> <<"2">>
      [] part = <<"i","i","i">>     -> <<"3">>
      [] part = <<"i","v">>         -> <<"4">>
      [] part = <<"v">>             -> <<"5">>
      [] part = <<"v","i">>         -> <<"6">>
      [] part = <<"v","i","i">>     -> <<"7">>
      [] part = <<"v","i","i","i">> -> <<"8">>
      [] part = <<"i","x">>         -> <<"9">>
      [] part = <<"x">>             -> <<"1","0">>
      [] part = <<"c","o","n","s","t","r","u","c","t","o","r">> -> ObjectConstructor
      [] OTHER                      -> part

----------------------------------------------------------------------------
(* utils/stringUtils: normalize, tokenize                                   *)

RECURSIVE SplitKeep(_, _, _)
\* str.split(/([\s\-_/()]+)/): the runs between separators and, because of
\* the capturing group, the separator runs themselves, in order.  cur is the
\* run being read, inSep tells whether it is a separator run.
SplitKeep(s, cur, inSep) ==
    IF s = <<>> THEN (IF inSep THEN <<cur, <<>>>> ELSE <<cur>>)
    ELSE IF IsSeparator(Head(s)) = inSep
         THEN SplitKeep(Tail(s), Append(cur, Head(s)), inSep)
         ELSE <<cur>> \o SplitKeep(Tail(s), <<Head(s)>>, ~inSep)

RECURSIVE SplitDrop(_, _)
\* str.split(/[\s\-_/()]+/): the runs between separators (the first and the
\* last may be empty)
SplitDrop(s, cur) ==
    IF s = <<>> THEN <<cur>>
    ELSE IF IsSeparator(Head(s))
         THEN IF Len(s) > 1 /\ IsSeparator(s[2])
              THEN SplitDrop(Tail(s), cur)
              ELSE <<cur>> \o SplitDrop(Tail(s), <<>>)
         ELSE SplitDrop(Tail(s), Append(cur, Head(s)))

RECURSIVE StripNonAlnum(_)
\* processed.replace(/[^a-z0-9]/g, '')
StripNonAlnum(s) ==
    IF s = <<>> THEN <<>>
    ELSE IF IsAlnum(Head(s)) THEN <<Head(s)>> \o StripNonAlnum(Tail(s))
         ELSE StripNonAlnum(Tail(s))

normalize(str, convertRoman) ==
    LET lowered == toLowerCase(str)
        parts == SplitKeep(lowered, <<>>, FALSE)
        processed == IF convertRoman
                     THEN Concat([i \in DOMAIN parts |-> JoinedPart(RomanToArabic(parts[i]))])
                     ELSE lowered
    IN StripNonAlnum(processed)

RECURSIVE DropEmpty(_)
\* .filter(t => t.length > 0)
DropEmpty(parts) ==
    IF parts = <<>> THEN <<>>
    ELSE IF Len(Head(parts)) > 0 THEN <<Head(parts)>> \o DropEmpty(Tail(parts))
         ELSE DropEmpty(Tail(parts))

tokenize(str, convertRoman) ==
    LET tokens == DropEmpty(SplitDrop(toLowerCase(str), <<>>))
    IN IF convertRoman THEN [i \in DOMAIN tokens |-> RomanToArabic(tokens[i])]
       ELSE tokens

----------------------------------------------------------------------------
(* utils/stringUtils: levenshtein                                           *)

Min3(x, y, z) == Min(x, Min(y, z))

\* the cell the DP matrix would get if the deletion neighbour were left out
LevCellNoUp(same, diag, left, up) ==
    IF same THEN diag ELSE Min(diag + 1, left + 1)

\* matrix[i][j] from matrix[i-1][j-1], matrix[i][j-1] and matrix[i-1][j]
LevCell(same, diag, left, up) ==
    IF same THEN diag ELSE Min3(diag + 1, left + 1, up + 1)

RECURSIVE LevFillRow(_, _, _, _, _)
\* the inner loop over j: row holds matrix[i][0..j-1], prev is matrix[i-1]
\* (both indexed from 1, so column j is at position j+1)
LevFillRow(row, prev, i, a, b) ==
    LET j == Len(row)
    IN IF j > Len(a) THEN row
       ELSE LevFillRow(Append(row, LevCell(b[i] = a[j], prev[j], row[j], prev[j + 1])),
                       prev, i, a, b)

RECURSIVE LevRows(_, _, _, _)
\* the outer loop over i: prev is matrix[i-1]
LevRows(prev, i, a, b) ==
    IF i > Len(b) THEN prev
    ELSE LevRows(LevFillRow(<<i>>, prev, i, a, b), i + 1, a, b)

levenshtein(a, b) ==
    LET row0 == [j \in 1..(Len(a) + 1) |-> j - 1]
    IN LevRows(row0, 1, a, b)[Len(a) + 1]

----------------------------------------------------------------------------
(* utils/stringUtils: isFuzzyMatch, isTokenMatch                            *)

\* isFuzzyMatch without the comparison of the normalised strings
isFuzzyMatchNoEqual(input, target, convertRoman) ==
    LET nInput == normalize(input, convertRoman)
        nTarget == normalize(target, convertRoman)
        dist == levenshtein(nInput, nTarget)
        maxLength == Max(Len(nInput), Len(nTarget))
    IN IF maxLength > 6 /\ dist <= 2 THEN TRUE
       ELSE IF maxLength > 3 /\ dist <= 1 THEN TRUE
       ELSE FALSE

\* isFuzzyMatch with the two-edit tolerance given to every string longer than 3
isFuzzyMatchLoose(input, target, convertRoman) ==
    LET nInput == normalize(input, convertRoman)
        nTarget == normalize(target, convertRoman)
        dist == levenshtein(nInput, nTarget)
        maxLength == Max(Len(nInput), Len(nTarget))
    IN IF nInput = nTarget THEN TRUE
       ELSE IF maxLength > 3 /\ dist <= 2 THEN TRUE
       ELSE FALSE

isFuzzyMatch(input, target, convertRoman) ==
    LET nInput == normalize(input, convertRoman)
        nTarget == normalize(target, convertRoman)
        dist == levenshtein(nInput, nTarget)
        maxLength == Max(Len(nInput), Len(nTarget))
    IN IF nInput = nTarget THEN TRUE
       ELSE IF maxLength > 6 /\ dist <= 2 THEN TRUE
       ELSE IF maxLength > 3 /\ dist <= 1 THEN TRUE
       ELSE FALSE

\* tokensA.every(token => tokensB.includes(token))
EveryIncluded(tokensA, tokensB) ==
    \A i \in DOMAIN tokensA : \E j \in DOMAIN tokensB : tokensB[j] = tokensA[i]

\* isTokenMatch without the guard on empty token lists
isTokenMatchNoGuard(tokensA, tokensB) ==
    EveryIncluded(tokensA, tokensB) \/ EveryIncluded(tokensB, tokensA)

isTokenMatch(tokensA, tokensB) ==
    IF Len(tokensA) = 0 \/ Len(tokensB) = 0 THEN FALSE
    ELSE EveryIncluded(tokensA, tokensB) \/ EveryIncluded(tokensB, tokensA)

----------------------------------------------------------------------------
(* constants.ts: COUNTRY_PREFIXES, FORCE_UPPERCASE                          *)

\* COUNTRY_PREFIXES[key] ?? key
CountryPrefixes(key) ==
    CASE key = <<"u","s","a">> -> <<"u","s">>
      [] key = <<"g","e","r","m","a","n","y">> -> <<"g","e","r","m">>
      [] key = <<"u","s","s","r">> -> <<"u","s","s","r">>
      [] key = <<"b","r","i","t","a","i","n">> -> <<"u","k">>
      [] key = <<"j","a","p","a","n">> -> <<"j","p">>
      [] key = <<"c","h","i","n","a">> -> <<"c","n">>
      [] key = <<"i","t","a","l","y">> -> <<"i","t">>
      [] key = <<"f","r","a","n","c","e">> -> <<"f","r">>
      [] key = <<"s","w","e","d","e","n">> -> <<"s","w">>
      [] key = <<"i","s","r","a","e","l">> -> <<"i","l">>
      [] OTHER -> key

FORCE_UPPERCASE ==
    { <<"d","f">>, <<"c","m">>, <<"p","t">>, <<"b","k">>,
      <<"i","s">>, <<"k","v">>, <<"c","v">>, <<"p","v">>,
      <<"i","k","v">>, <<"s","t","r","v">>, <<"l","v","k","v">>, <<"p","b","v">>,
      <<"p","v","k","v">>, <<"s","a","v">>, <<"a","m","x">>, <<"a","m","d">>,
      <<"a","m","l">>, <<"z","t","z">>, <<"z","s","d">>, <<"z","b","d">>,
      <<"p","g","z">>, <<"b","m","d">>, <<"b","m","p">>, <<"b","t","r">>,
      <<"a","s","u","s">>, <<"m","1">>, <<"m","2">>, <<"m","3">>,
      <<"m","4">>, <<"m","6","0">>, <<"t","5","4">>, <<"t","5","5">>,
      <<"t","6","2">>, <<"t","6","4">>, <<"t","7","2">>, <<"t","8","0">>,
      <<"t","9","0">> }

----------------------------------------------------------------------------
(* utils/stringUtils: getCountryPrefix, formatName                          *)

getCountryPrefix(country) == CountryPrefixes(toLowerCase(country))

\* String.prototype.startsWith
StartsWith(s, p) == Len(p) <= Len(s) /\ SubSeq(s, 1, Len(p)) = p

\* String.prototype.substring(n) / slice(n)
Substring(s, n) == SubSeq(s, n + 1, Len(s))

\* name.replace(/_/g, ' ')
UnderscoresToSpaces(s) == [i \in DOMAIN s |-> IF s[i] = "_" THEN " " ELSE s[i]]

RECURSIVE SplitOn(_, _, _)
\* str.split(sep) for a one-character separator: every separator ends a
\* part, so neighbouring separators give empty parts
SplitOn(s, sep, cur) ==
    IF s = <<>> THEN <<cur>>
    ELSE IF Head(s) = sep THEN <<cur>> \o SplitOn(Tail(s), sep, <<>>)
         ELSE SplitOn(Tail(s), sep, Append(cur, Head(s)))

RECURSIVE JoinWith(_, _)
\* parts.join(sep)
JoinWith(parts, sep) ==
    IF parts = <<>> THEN <<>>
    ELSE IF Len(parts) = 1 THEN Head(parts)
         ELSE Head(parts) \o sep \o JoinWith(Tail(parts), sep)

\* /^(x|ix|iv|v?i{1,3}|v)$/i
IsRomanWord(word) ==
    toLowerCase(word) \in { <<"x">>, <<"i","x">>, <<"i","v">>, <<"v">>,
                            <<"i">>, <<"i","i">>, <<"i","i","i">>,
                            <<"v","i">>, <<"v","i","i">>, <<"v","i","i","i">> }

\* the callback of name.split(' ').map(...)
FormatWord(word) ==
    LET lower == toLowerCase(word)
    IN CASE lower = <<"u","s">>         -> <<"U","S">>
         [] lower = <<"k","w","k">>     -> <<"K","w","K">>
         [] lower = <<"f","l","a","k">> -> <<"F","l","a","K">>
         [] lower = <<"p","a","k">>     -> <<"P","a","K">>
         [] OTHER ->
            IF lower \in FORCE_UPPERCASE THEN toUpperCase(lower)
            ELSE IF \E i \in DOMAIN word : IsDigit(word[i]) THEN toUpperCase(word)
            ELSE IF IsRomanWord(word) THEN toUpperCase(word)
            ELSE IF Len(word) = 1 THEN toUpperCase(word)
            ELSE IF word = <<>> THEN <<>>
            ELSE <<UpperChar(word[1])>> \o Substring(word, 1)

RECURSIVE HyphenateLetterDigit(_)
\* name.replace(/([A-Za-z]) (\d)/g, '$1-$2'): a match uses up its three
\* characters, the scan goes on behind it
HyphenateLetterDigit(s) ==
    IF s = <<>> THEN <<>>
    ELSE IF Len(s) >= 3 /\ (IsUpper(s[1]) \/ IsLower(s[1])) /\ s[2] = " " /\ IsDigit(s[3])
         THEN <<s[1], "-", s[3]>> \o HyphenateLetterDigit(SubSeq(s, 4, Len(s)))
         ELSE <<Head(s)>> \o HyphenateLetterDigit(Tail(s))

RECURSIVE HyphenateDigitDigit(_)
\* name.replace(/(\d)-(\d)/g, '$1-$2') leaves the string as it is;
\* name.replace(/(\d) (\d)/g, '$1-$2'): a match uses up its three characters
HyphenateDigitDigit(s) ==
    IF s = <<>> THEN <<>>
    ELSE IF Len(s) >= 3 /\ IsDigit(s[1]) /\ s[2] = " " /\ IsDigit(s[3])
         THEN <<s[1], "-", s[3]>> \o HyphenateDigitDigit(SubSeq(s, 4, Len(s)))
         ELSE <<Head(s)>> \o HyphenateDigitDigit(Tail(s))

formatName(id, country) ==
    LET lowered == toLowerCase(id)
        prefix == getCountryPrefix(country)
        lowCountry == toLowerCase(country)
        stripped == IF StartsWith(lowered, Append(prefix, "_"))
                    THEN Substring(lowered, Len(prefix) + 1)
                    ELSE IF StartsWith(lowered, Append(lowCountry, "_"))
                         THEN Substring(lowered, Len(lowCountry) + 1)
                         ELSE lowered
        words == SplitOn(UnderscoresToSpaces(stripped), " ", <<>>)
        joined == JoinWith([i \in DOMAIN words |-> FormatWord(words[i])], <<" ">>)
    IN HyphenateDigitDigit(HyphenateLetterDigit(joined))

----------------------------------------------------------------------------
(* utils/stringUtils: generateAliases                                       *)

\* Array.prototype.push in place of Set.prototype.add
SetAddAsPush(aliases, entry) == Append(aliases, entry)

\* Set.prototype.add on a Set that keeps insertion order
SetAdd(aliases, entry) ==
    IF \E i \in DOMAIN aliases : aliases[i] = entry THEN aliases
    ELSE Append(aliases, entry)

RECURSIVE RemoveChars(_, _)
\* s.replace(/c/g, '') for the characters of the set drop
RemoveChars(s, drop) ==
    IF s = <<>> THEN <<>>
    ELSE IF Head(s) \in drop THEN RemoveChars(Tail(s), drop)
         ELSE <<Head(s)>> \o RemoveChars(Tail(s), drop)

HyphensToSpaces(s) == [i \in DOMAIN s |-> IF s[i] = "-" THEN " " ELSE s[i]]

Pzkpfw == <<"p","z","k","p","f","w">>
Panzer == <<"p","a","n","z","e","r">>

\* s.includes(sub)
Includes(s, sub) ==
    \E i \in 0..(Len(s) - Len(sub)) : SubSeq(s, i + 1, i + Len(sub)) = sub

\* s.replace(sub, by): the first occurrence only
ReplaceFirst(s, sub, by) ==
    IF ~Includes(s, sub) THEN s
    ELSE LET i == CHOOSE k \in 0..(Len(s) - Len(sub)) :
                      /\ SubSeq(s, k + 1, k + Len(sub)) = sub
                      /\ \A m \in 0..(k - 1) : SubSeq(s, m + 1, m + Len(sub)) # sub
         IN SubSeq(s, 1, i) \o by \o SubSeq(s, i + Len(sub) + 1, Len(s))

\* generateAliases without the alias made of the identifier
generateAliasesNoCleanId(name, id) ==
    LET lname == toLowerCase(name)
        cleanId == UnderscoresToSpaces(toLowerCase(id))
        parts == SplitOn(id, "_", <<>>)
        a1 == SetAdd(<<>>, lname)
        a2 == a1
        a3 == IF Len(parts) > 1
              THEN SetAdd(SetAdd(a2, toLowerCase(JoinWith(Tail(parts), <<" ">>))),
                          toLowerCase(JoinWith(Tail(parts), <<>>)))
              ELSE a2
        a4 == SetAdd(a3, HyphensToSpaces(lname))
        a5 == SetAdd(a4, RemoveChars(lname, {"-"}))
        a6 == SetAdd(a5, RemoveChars(lname, {" ", "\t"}))
        nameParts == SplitOn(name, " ", <<>>)
        a7 == IF Len(nameParts) > 1 THEN SetAdd(a6, toLowerCase(nameParts[1])) ELSE a6
        a8 == IF Includes(lname, Pzkpfw)
              THEN SetAdd(a7, ReplaceFirst(lname, Pzkpfw, Panzer))
              ELSE a7
    IN a8

generateAliases(name, id) ==
    LET lname == toLowerCase(name)
        cleanId == UnderscoresToSpaces(toLowerCase(id))
        parts == SplitOn(id, "_", <<>>)
        a1 == SetAdd(<<>>, lname)
        a2 == SetAdd(a1, cleanId)
        a3 == IF Len(parts) > 1
              THEN SetAdd(SetAdd(a2, toLowerCase(JoinWith(Tail(parts), <<" ">>))),
                          toLowerCase(JoinWith(Tail(parts), <<>>)))
              ELSE a2
        a4 == SetAdd(a3, HyphensToSpaces(lname))
        a5 == SetAdd(a4, RemoveChars(lname, {"-"}))
        a6 == SetAdd(a5, RemoveChars(lname, {" ", "\t"}))
        nameParts == SplitOn(name, " ", <<>>)
        a7 == IF Len(nameParts) > 1 THEN SetAdd(a6, toLowerCase(nameParts[1])) ELSE a6
        a8 == IF Includes(lname, Pzkpfw)
              THEN SetAdd(a7, ReplaceFirst(lname, Pzkpfw, Panzer))
              ELSE a7
    IN a8

----------------------------------------------------------------------------
(* 32-bit integer arithmetic of JavaScript.  A number is a pair <<hi, lo>> *)
(* that stands for hi * 2^16 + lo, with 0 <= lo < 2^16; it is a 32-bit     *)
(* word when hi < 2^16 as well.                                            *)

TwoTo16 == 65536

RECURSIVE Pow2(_)
Pow2(n) == IF n = 0 THEN 1 ELSE 2 * Pow2(n - 1)

RECURSIVE Xor16(_, _, _)
\* bitwise exclusive or of the n low bits
Xor16(x, y, n) ==
    IF n = 0 THEN 0
    ELSE ((x + y) % 2) + 2 * Xor16(x \div 2, y \div 2, n - 1)

RECURSIVE Or16(_, _, _)
\* bitwise or of the n low bits
Or16(x, y, n) ==
    IF n = 0 THEN 0
    ELSE Max(x % 2, y % 2) + 2 * Or16(x \div 2, y \div 2, n - 1)

\* ToUint32 / ToInt32 of a number: its residue modulo 2^32
ToUint32(x) == <<x[1] % TwoTo16, x[2]>>

\* x ^ y
Xor32(x, y) == <<Xor16(x[1], y[1], 16), Xor16(x[2], y[2], 16)>>

\* x | y
Or32(x, y) == <<Or16(x[1], y[1], 16), Or16(x[2], y[2], 16)>>

\* x >>> n, for 0 < n < 16
Shr32(x, n) ==
    <<x[1] \div Pow2(n), (x[1] % Pow2(n)) * Pow2(16 - n) + (x[2] \div Pow2(n))>>

\* x + y of two numbers, not reduced
AddNumber(x, y) ==
    <<x[1] + y[1] + ((x[2] + y[2]) \div TwoTo16), (x[2] + y[2]) % TwoTo16>>

\* the low 16 bits of the product of two 16-bit values
MulLow16(x, y) == (((x \div 256) * y % 256) * 256 + (x % 256) * y) % TwoTo16

\* the bits 16 and above of the product of two 16-bit values, modulo 2^16
MulHigh16(x, y) ==
    LET p2 == (x \div 256) * y
        p1 == (x % 256) * y
    IN ((p2 \div 256) + (((p2 % 256) * 256 + p1) \div TwoTo16)) % TwoTo16

\* Math.imul(x, y): the product modulo 2^32
Imul(x, y) ==
    <<(MulHigh16(x[2], y[2]) + MulLow16(x[1], y[2]) + MulLow16(x[2], y[1])) % TwoTo16,
      MulLow16(x[2], y[2])>>

\* String.prototype.charCodeAt for the characters of the seed strings
CharCode(c) ==
    IF IsDigit(c) THEN 48 + (CHOOSE d \in 0..9 : <<"0","1","2","3","4","5","6","7","8","9">>[d + 1] = c)
    ELSE IF IsLower(c) THEN 96 + (CHOOSE i \in DOMAIN LowerCase : LowerCase[i] = c)
    ELSE IF IsUpper(c) THEN 64 + (CHOOSE i \in DOMAIN UpperCase : UpperCase[i] = c)
    ELSE IF c = "-" THEN 45
    ELSE IF c = "_" THEN 95
    ELSE IF c = "." THEN 46
    ELSE 32

----------------------------------------------------------------------------
(* services/apiService: SeededRandom                                        *)

FnvOffsetBasis == <<33052, 40389>>   \* 0x811c9dc5
FnvPrime == <<256, 403>>             \* 0x01000193
MulberryIncrement == <<27947, 31221>> \* 0x6D2B79F5

RECURSIVE FnvLoop(_, _)
\* the hash after the first n characters; in each round
\* h ^= seedStr.charCodeAt(i); h = Math.imul(h, 0x01000193)
\* (the test on h has the earlier rounds computed before this one)
FnvLoop(seedStr, n) ==
    IF n = 0 THEN FnvOffsetBasis
    ELSE LET h == FnvLoop(seedStr, n - 1)
         IN IF h[2] >= 0
            THEN Imul(Xor32(h, <<0, CharCode(seedStr[n])>>), FnvPrime)
            ELSE h

\* constructor(seedStr): this.seed = h >>> 0
SeededRandomNew(seedStr) == ToUint32(FnvLoop(seedStr, Len(seedStr)))

\* this.seed += 0x6D2B79F5 is an addition of numbers: the field is not
\* brought back to 32 bits
SeedAfterNext(seed) == AddNumber(seed, MulberryIncrement)

\* the mixing rounds of next() applied to t; the draw is the result / 2^32
MulberryMix(t0) ==
    LET t1 == Imul(Xor32(t0, Shr32(t0, 15)), Or32(t0, <<0, 1>>))
        t2 == Xor32(t1, ToUint32(AddNumber(t1, Imul(Xor32(t1, Shr32(t1, 7)), Or32(t1, <<0, 61>>)))))
    IN Xor32(t2, Shr32(t2, 14))

\* next(): the numerator of the draw over 4294967296
SeededNext(seed) == MulberryMix(ToUint32(SeedAfterNext(seed)))

\* Math.floor(draw * length), the draw being numerator / 2^32
FloorScale(numerator, length) ==
    (numerator[1] * length + ((numerator[2] * length) \div TwoTo16)) \div TwoTo16

----------------------------------------------------------------------------
(* services/apiService: the local data and fetchMysteryVehicle              *)

\* NATION_NAMES[key], None when the key is absent
NationNames(key) ==
    CASE key = <<"u","s","a">> -> <<"U","S","A">>
      [] key = <<"g","e","r","m","a","n","y">> -> <<"G","e","r","m","a","n","y">>
      [] key = <<"u","s","s","r">> -> <<"U","S","S","R">>
      [] key = <<"b","r","i","t","a","i","n">> -> <<"G","r","e","a","t"," ","B","r","i","t","a","i","n">>
      [] key = <<"j","a","p","a","n">> -> <<"J","a","p","a","n">>
      [] key = <<"c","h","i","n","a">> -> <<"C","h","i","n","a">>
      [] key = <<"i","t","a","l","y">> -> <<"I","t","a","l","y">>
      [] key = <<"f","r","a","n","c","e">> -> <<"F","r","a","n","c","e">>
      [] key = <<"s","w","e","d","e","n">> -> <<"S","w","e","d","e","n">>
      [] key = <<"i","s","r","a","e","l">> -> <<"I","s","r","a","e","l">>
      [] OTHER -> <<>>

\* NATION_NAMES[code.toLowerCase()] ?? code.charAt(0).toUpperCase() + code.slice(1)
getNationName(code) ==
    IF NationNames(toLowerCase(code)) # <<>> THEN NationNames(toLowerCase(code))
    ELSE IF code = <<>> THEN <<>>
    ELSE <<UpperChar(code[1])>> \o Substring(code, 1)

\* Number.prototype.toString for the ranks of the data
NumToString(num) ==
    LET digit(d) == <<"0","1","2","3","4","5","6","7","8","9">>[d + 1]
    IN IF num < 10 THEN <<digit(num)>> ELSE <<digit(num \div 10), digit(num % 10)>>

\* ROMAN_MAP[num] ?? num.toString()
toRoman(num) ==
    CASE num = 1 -> <<"I">>
      [] num = 2 -> <<"I","I">>
      [] num = 3 -> <<"I","I","I">>
      [] num = 4 -> <<"I","V">>
      [] num = 5 -> <<"V">>
      [] num = 6 -> <<"V","I">>
      [] num = 7 -> <<"V","I","I">>
      [] num = 8 -> <<"V","I","I","I">>
      [] num = 9 -> <<"I","X">>
      [] OTHER -> NumToString(num)

\* assets/vehicles.json: the records the module is loaded with (br in tenths)
vehicles ==
    << [id |-> <<"u","s","s","r","_","g","a","z","_","d","s","h","k">>, country |-> <<"u","s","s","r">>,
        rank |-> 1, br |-> 10, type |-> <<"s","p","a","a">>,
        armament |-> "12.7 mm DShK", image |-> "http://img/gaz_dshk"],
       [id |-> <<"u","s","s","r","_","t","_","3","4","_","8","5">>, country |-> <<"u","s","s","r">>,
        rank |-> 3, br |-> 57, type |-> <<"m","e","d","i","u","m","_","t","a","n","k">>,
        armament |-> "85 mm ZiS-S-53", image |-> "http://img/t_34_85"],
       [id |-> <<"g","e","r","m","_","p","z","k","p","f","w","_","i","v">>, country |-> <<"g","e","r","m","a","n","y">>,
        rank |-> 2, br |-> 33, type |-> <<"m","e","d","i","u","m","_","t","a","n","k">>,
        armament |-> "", image |-> ""],
       [id |-> <<"u","s","s","r","_","g","a","z","_","d","s","h","k">>, country |-> <<"u","s","s","r">>,
        rank |-> 2, br |-> 13, type |-> <<"s","p","a","a">>,
        armament |-> "12.7 mm DShK", image |-> "http://img/gaz_dshk_2"],
       [id |-> <<"c","n","_","c","m","1","1">>, country |-> <<"c","h","i","n","a">>,
        rank |-> 6, br |-> 87, type |-> <<"m","e","d","i","u","m","_","t","a","n","k">>,
        armament |-> "105 mm M68A1", image |-> "http://img/cm11"] >>

\* v.type.replace(/_/g, ' ').toUpperCase()
FormatType(type) == toUpperCase(UnderscoresToSpaces(type))

getVehicleDetails(vehicle) ==
    LET name == formatName(vehicle.id, vehicle.country)
    IN [name |-> name,
        nation |-> getNationName(vehicle.country),
        rank |-> toRoman(vehicle.rank),
        br |-> vehicle.br,
        vehicleType |-> FormatType(vehicle.type),
        armament |-> IF vehicle.armament = "" THEN "Unknown Armament" ELSE vehicle.armament,
        description |-> IF vehicle.image = ""
                        THEN "VISUAL DATA CORRUPTED. NO IMAGE AVAILABLE."
                        ELSE vehicle.image,
        aliases |-> generateAliases(name, vehicle.id)]

RECURSIVE UniqueById(_, _)
\* the Map keyed by id keeps the first record of every id, in order
UniqueById(candidates, kept) ==
    IF candidates = <<>> THEN kept
    ELSE IF \E i \in DOMAIN kept : kept[i].id = Head(candidates).id
         THEN UniqueById(Tail(candidates), kept)
         ELSE UniqueById(Tail(candidates), Append(kept, Head(candidates)))

\* a seed of the call: undefined, or a string
NoSeed == [given |-> FALSE, str |-> <<>>]
SeedOf(str) == [given |-> TRUE, str |-> str]

\* the draws Math.random() can return, as numerators over 2^32
RandomNumerators == {<<k * 16384, 0>> : k \in 0..3}

\* rng = seed ? new SeededRandom(seed) : { next: Math.random }, and the
\* values its first next() can return
FirstDraws(seed) ==
    IF seed.given /\ seed.str # <<>>
    THEN {SeededNext(SeededRandomNew(seed.str))}
    ELSE RandomNumerators

\* what fetchMysteryVehicle resolves or rejects with, given the candidates
\* and the draw of its one rng.next()
FetchOutcome(candidates, draw) ==
    IF Len(candidates) = 0
    THEN [status |-> "rejected",
          message |-> "Database Query Failed: No suitable vehicles found."]
    ELSE LET uniqueVehicles == UniqueById(candidates, <<>>)
             selection == uniqueVehicles[FloorScale(draw, Len(uniqueVehicles)) + 1]
         IN [status |-> "resolved",
             vehicle |-> getVehicleDetails(selection),
             pool |-> [i \in DOMAIN uniqueVehicles |->
                         [id |-> uniqueVehicles[i].id,
                          name |-> formatName(uniqueVehicles[i].id, uniqueVehicles[i].country),
                          nation |-> getNationName(uniqueVehicles[i].country),
                          rank |-> toRoman(uniqueVehicles[i].rank),
                          br |-> uniqueVehicles[i].br,
                          vehicleType |-> FormatType(uniqueVehicles[i].type),
                          image |-> uniqueVehicles[i].image]]]

----------------------------------------------------------------------------
(* components/Game: checkGuessMatch                                         *)

RECURSIVE AliasLoopFirstOnly(_, _, _)
\* the alias loop giving up after the first alias
AliasLoopFirstOnly(value, aliases, convertRoman) ==
    IF aliases = <<>> THEN FALSE
    ELSE IF isFuzzyMatch(value, Head(aliases), convertRoman) THEN TRUE
    ELSE isTokenMatch(tokenize(value, convertRoman), tokenize(Head(aliases), convertRoman))

RECURSIVE AliasLoop(_, _, _)
\* for (const alias of vehicle.aliases) { ... }, then return false
AliasLoop(value, aliases, convertRoman) ==
    IF aliases = <<>> THEN FALSE
    ELSE IF isFuzzyMatch(value, Head(aliases), convertRoman) THEN TRUE
    ELSE IF isTokenMatch(tokenize(value, convertRoman), tokenize(Head(aliases), convertRoman))
         THEN TRUE
    ELSE AliasLoop(value, Tail(aliases), convertRoman)

\* vehicle.name, vehicle.aliases and convertRoman are what the callback closes over
checkGuessMatch(valueToCheck, name, aliases, convertRoman) ==
    IF isFuzzyMatch(valueToCheck, name, convertRoman) THEN TRUE
    ELSE IF isTokenMatch(tokenize(valueToCheck, convertRoman), tokenize(name, convertRoman))
         THEN TRUE
    ELSE AliasLoop(valueToCheck, aliases, convertRoman)

----------------------------------------------------------------------------
(* constants.ts: GAME_CONFIG, DEFAULT_GAME_STATS                            *)

MAX_ATTEMPTS == 6

DEFAULT_GAME_STATS == [gamesPlayed |-> 0, wins |-> 0, currentStreak |-> 0, maxStreak |-> 0]

----------------------------------------------------------------------------
(* utils/storage: updateGameStats                                           *)

\* updateGameStats that leaves maxStreak as it was
updateGameStatsStaleMax(currentStats, won) ==
    IF won
    THEN [gamesPlayed |-> currentStats.gamesPlayed + 1,
          wins |-> currentStats.wins + 1,
          currentStreak |-> currentStats.currentStreak + 1,
          maxStreak |-> currentStats.maxStreak]
    ELSE [gamesPlayed |-> currentStats.gamesPlayed + 1,
          wins |-> currentStats.wins,
          currentStreak |-> 0,
          maxStreak |-> currentStats.maxStreak]

\* what updateGameStats(won) saves and returns, from the stats it reads
updateGameStats(currentStats, won) ==
    IF won
    THEN [gamesPlayed |-> currentStats.gamesPlayed + 1,
          wins |-> currentStats.wins + 1,
          currentStreak |-> currentStats.currentStreak + 1,
          maxStreak |-> Max(currentStats.maxStreak, currentStats.currentStreak + 1)]
    ELSE [gamesPlayed |-> currentStats.gamesPlayed + 1,
          wins |-> currentStats.wins,
          currentStreak |-> 0,
          maxStreak |-> currentStats.maxStreak]

----------------------------------------------------------------------------
(* App and components/Game: the session.  An event handler runs to its end *)
(* and the components render again before the next event.  The            *)
(* achievements kept under their own storage key and the flags that only  *)
(* show or hide parts of the page (showSuggestions, isShaking, the help    *)
(* dialog) are not part of the state.                                      *)

NullVehicle == [null |-> TRUE]
Unmounted == [mounted |-> FALSE]
NoPending == EmptyBag
\* dailyPlays counts the daily games that entered PLAYING; judged and skipped
\* are the judged guesses and the skipped hints of the game that ended last,
\* until the next start
NoHistory == [dailyPlays |-> 0, judged |-> 0, skipped |-> 0]
NoToast == [kind |-> "null", type |-> "null"]

\* the number of games the stored stats may count
MaxGames == 1

\* the number of loads that may be in flight at once
MaxLoads == 2

\* the count of daily games is kept up to this number
MaxDailyPlays == 2

\* new Date().toISOString().split('T')[0]
Today == <<"2","0","2","6","-","1","1","-","0","2">>

\* what the player can type into the input
GuessTexts == { <<>>, <<" ">>, <<"G","a","z"," ","4","m">>, <<"T","-","3","4","-","8","5">> }

AppInit ==
    [gameState |-> "MENU", vehicle |-> NullVehicle, difficulty |-> "HARD",
     pool |-> <<>>, loadingError |-> "null", attemptsUsed |-> 0,
     isDaily |-> FALSE, dailyCompleted |-> FALSE]

StorageInit == [stats |-> DEFAULT_GAME_STATS]

\* the useState initial values of Game; judged counts the calls of
\* checkGuessMatch and skipped the hints revealed by a skip since the mount
GameMount ==
    [guess |-> <<>>, attempts |-> 0, toast |-> NoToast,
     stats |-> storage.stats, guessFeedbackHistory |-> <<>>, judged |-> 0,
     skipped |-> 0]

\* nobody plays: the session variables of a caller of the library
SessionIdle ==
    /\ app = AppInit
    /\ game = Unmounted
    /\ storage = StorageInit
    /\ pending = NoPending
    /\ hist = NoHistory
    /\ api = "local"

\* <Game> is rendered
Playing == app.gameState = "PLAYING" /\ app.vehicle # NullVehicle

convertRoman == app.difficulty = "HARD"

\* the remote fetchMysteryVehicle rejects when the vehicle database cannot
\* be reached
NetworkFailure ==
    [status |-> "rejected",
     message |-> "HQ Link Lost: The Vehicle Database is currently unreachable."]

\* what the promise of fetchMysteryVehicle(difficulty, seed) can settle with
FetchOutcomes(seed) ==
    {FetchOutcome(vehicles, draw) : draw \in FirstDraws(seed)}
        \cup (IF api = "remote" THEN {NetworkFailure} ELSE {})

\* the page handles the next event.  The local fetchMysteryVehicle awaits
\* nothing: its promise is settled when startGame awaits it, and startGame
\* resumes before any other event.  The remote one awaits the network, and
\* the page handles other events until the promise settles.
Interactive == api = "remote" \/ pending = NoPending

\* startGame(selectedDifficulty, seed) up to its await
StartGame(selectedDifficulty, seed) ==
    /\ app.gameState = "MENU" /\ Interactive
    /\ BagCardinality(pending) < MaxLoads
    /\ storage.stats.gamesPlayed < MaxGames
    /\ \E outcome \in FetchOutcomes(seed) :
          pending' = pending (+) SetToBag({[outcome |-> outcome,
                                            seeded |-> seed.given /\ seed.str # <<>>]})
    /\ app' = [app EXCEPT !.difficulty = selectedDifficulty,
                          !.isDaily = seed.given /\ seed.str # <<>>,
                          !.gameState = "LOADING",
                          !.loadingError = "null"]
    /\ hist' = [hist EXCEPT !.judged = 0, !.skipped = 0]
    /\ UNCHANGED <<game, storage, callerVars>>

ClickEasy == StartGame("EASY", NoSeed)
ClickHard == StartGame("HARD", NoSeed)

\* the Daily Challenge button
ClickDaily ==
    /\ ~app.dailyCompleted
    /\ StartGame("HARD", SeedOf(Today))

\* startGame whose catch goes back to the menu without an error
SettleWithoutError(load) ==
    /\ pending' = pending (-) SetToBag({load})
    /\ IF load.outcome.status = "resolved"
       THEN /\ app' = [app EXCEPT !.vehicle = load.outcome.vehicle,
                                  !.pool = load.outcome.pool,
                                  !.gameState = "PLAYING"]
            /\ game' = IF Playing THEN game ELSE GameMount
            /\ hist' = IF load.seeded
                       THEN [hist EXCEPT !.dailyPlays = Min(MaxDailyPlays, @ + 1)]
                       ELSE hist
       ELSE /\ app' = [app EXCEPT !.gameState = "MENU"]
            /\ game' = Unmounted
            /\ hist' = hist
    /\ UNCHANGED <<storage, callerVars>>

\* startGame after its await, for one of the loads in flight.  A Game that
\* is rendered before and after keeps its state and gets the new props.
Settle(load) ==
    /\ pending' = pending (-) SetToBag({load})
    /\ IF load.outcome.status = "resolved"
       THEN /\ app' = [app EXCEPT !.vehicle = load.outcome.vehicle,
                                  !.pool = load.outcome.pool,
                                  !.gameState = "PLAYING"]
            /\ game' = IF Playing THEN game ELSE GameMount
            /\ hist' = IF load.seeded
                       THEN [hist EXCEPT !.dailyPlays = Min(MaxDailyPlays, @ + 1)]
                       ELSE hist
       ELSE /\ app' = [app EXCEPT
                         !.loadingError = "Failed to establish connection to HQ (API Error). Please retry.",
                         !.gameState = "MENU"]
            /\ game' = Unmounted
            /\ hist' = hist
    /\ UNCHANGED <<storage, callerVars>>

\* a promise of fetchMysteryVehicle settles; the promises settle in any
\* order.  A session whose stored stats count MaxGames games is not followed
\* into another game.
StartGameResume ==
    /\ storage.stats.gamesPlayed < MaxGames
    /\ \E load \in BagToSet(pending) : Settle(load)

\* the header button, if leaving a game were stored as a loss
ClickHeaderStoresLoss ==
    /\ Interactive
    /\ app' = [app EXCEPT !.gameState = "MENU"]
    /\ game' = Unmounted
    /\ storage' = IF Playing
                  THEN [storage EXCEPT !.stats = updateGameStats(storage.stats, FALSE)]
                  ELSE storage
    /\ UNCHANGED <<pending, idleVars>>

\* the header button: setGameState(GameState.MENU)
ClickHeader ==
    /\ Interactive
    /\ app' = [app EXCEPT !.gameState = "MENU"]
    /\ game' = Unmounted
    /\ UNCHANGED <<storage, pending, idleVars>>

\* the button of the result screen
handleReturnToMenu ==
    /\ Interactive
    /\ app.gameState \in {"VICTORY", "GAME_OVER"} /\ app.vehicle # NullVehicle
    /\ app' = [app EXCEPT !.gameState = "MENU"]
    /\ UNCHANGED <<game, storage, pending, idleVars>>

\* handleGameOver(won, attempts) applied to the App state; the storage key
\* that saveDailyCompleted writes is read again only when App is constructed
handleGameOver(won, attempts) ==
    [app EXCEPT !.gameState = IF won THEN "VICTORY" ELSE "GAME_OVER",
                !.attemptsUsed = attempts,
                !.dailyCompleted = IF app.isDaily THEN TRUE ELSE @]

\* handleInputChange
handleInputChange(text) ==
    /\ Playing /\ Interactive
    /\ game' = [game EXCEPT !.guess = text]
    /\ UNCHANGED <<app, storage, pending, idleVars>>

RECURSIVE CollapseSearchSeparators(_)
\* replace(/[-_\s]+/g, ' ')
CollapseSearchSeparators(s) ==
    IF s = <<>> THEN <<>>
    ELSE IF Head(s) \in {"-", "_"} \/ IsSpace(Head(s))
         THEN IF Len(s) > 1 /\ (s[2] \in {"-", "_"} \/ IsSpace(s[2]))
              THEN CollapseSearchSeparators(Tail(s))
              ELSE <<" ">> \o CollapseSearchSeparators(Tail(s))
         ELSE <<Head(s)>> \o CollapseSearchSeparators(Tail(s))

RECURSIVE TrimStart(_)
TrimStart(s) == IF s # <<>> /\ IsSpace(Head(s)) THEN TrimStart(Tail(s)) ELSE s

RECURSIVE TrimEnd(_)
TrimEnd(s) == IF s # <<>> /\ IsSpace(s[Len(s)]) THEN TrimEnd(SubSeq(s, 1, Len(s) - 1)) ELSE s

\* String.prototype.trim
Trim(s) == TrimEnd(TrimStart(s))

normalizeForSearch(str) == Trim(CollapseSearchSeparators(toLowerCase(str)))

matchesSearch(vehicleName, searchQuery) ==
    Includes(normalizeForSearch(vehicleName), normalizeForSearch(searchQuery))

\* the entries of filteredPool (Easy mode), as a set: the pool entries that
\* match the revealed hints and the typed text
filteredPool ==
    IF app.difficulty # "EASY" THEN {}
    ELSE {v \in Range(app.pool) :
            /\ v.nation = app.vehicle.nation
            /\ game.attempts >= 1 => v.rank = app.vehicle.rank
            /\ game.attempts >= 3 => v.vehicleType = app.vehicle.vehicleType
            /\ ~IsBlank(game.guess) => matchesSearch(v.name, game.guess)}

SUGGESTIONS_LIMIT == 10

RECURSIVE uniquePool(_, _)
\* pool.filter with the set seenNames: the first entry of every lowercased
\* name stays
uniquePool(pool, seenNames) ==
    IF pool = <<>> THEN <<>>
    ELSE LET lowerName == toLowerCase(Head(pool).name)
         IN IF lowerName \in seenNames
            THEN uniquePool(Tail(pool), seenNames)
            ELSE <<Head(pool)>> \o uniquePool(Tail(pool), seenNames \cup {lowerName})

\* the hints revealed at this number of attempts hold for the pool entry
MatchesHints(v, vehicle, attempts) ==
    /\ v.nation = vehicle.nation
    /\ attempts >= 1 => v.rank = vehicle.rank
    /\ attempts >= 3 => v.vehicleType = vehicle.vehicleType

\* the three filters on nation, rank and vehicleType
filteredByHints(pool, vehicle, attempts) ==
    LET Keep(v) == MatchesHints(v, vehicle, attempts)
    IN SelectSeq(pool, Keep)

\* the places of a character in the collation of localeCompare, for names of
\* ASCII letters, digits, blanks and hyphens: blank and punctuation before
\* digits before letters, and for the same letter lower case before upper
PrimaryWeight(c) ==
    IF IsSpace(c) THEN 1
    ELSE IF IsDigit(c) THEN 10 + CharCode(c)
    ELSE IF IsLower(c) \/ IsUpper(c) THEN 100 + CharCode(LowerChar(c))
    ELSE 2
TertiaryWeight(c) == IF IsUpper(c) THEN 1 ELSE 0

RECURSIVE CompareWeights(_, _)
\* the order of two sequences of weights: -1, 0 or 1
CompareWeights(a, b) ==
    IF a = <<>> THEN (IF b = <<>> THEN 0 ELSE -1)
    ELSE IF b = <<>> THEN 1
    ELSE IF Head(a) < Head(b) THEN -1
    ELSE IF Head(a) > Head(b) THEN 1
    ELSE CompareWeights(Tail(a), Tail(b))

\* a.localeCompare(b)
localeCompare(a, b) ==
    LET primary == CompareWeights([i \in DOMAIN a |-> PrimaryWeight(a[i])],
                                  [i \in DOMAIN b |-> PrimaryWeight(b[i])])
    IN IF primary # 0 THEN primary
       ELSE CompareWeights([i \in DOMAIN a |-> TertiaryWeight(a[i])],
                           [i \in DOMAIN b |-> TertiaryWeight(b[i])])

\* the comparator of the sort of the suggestions
CompareSuggestions(a, b, normalizedSearch) ==
    LET aStarts == StartsWith(normalizeForSearch(a.name), normalizedSearch)
        bStarts == StartsWith(normalizeForSearch(b.name), normalizedSearch)
    IN IF aStarts /\ ~bStarts THEN -1
       ELSE IF ~aStarts /\ bStarts THEN 1
       ELSE localeCompare(a.name, b.name)

RECURSIVE InsertSuggestion(_, _, _)
\* the entry goes behind the entries that do not compare greater
InsertSuggestion(sorted, v, normalizedSearch) ==
    IF sorted = <<>> THEN <<v>>
    ELSE IF CompareSuggestions(Head(sorted), v, normalizedSearch) <= 0
         THEN <<Head(sorted)>> \o InsertSuggestion(Tail(sorted), v, normalizedSearch)
         ELSE <<v>> \o sorted

RECURSIVE SortSuggestions(_, _)
\* Array.prototype.sort with that comparator (the sort is stable)
SortSuggestions(list, normalizedSearch) ==
    IF list = <<>> THEN <<>>
    ELSE InsertSuggestion(SortSuggestions(SubSeq(list, 1, Len(list) - 1), normalizedSearch),
                          list[Len(list)], normalizedSearch)

\* slice(0, SUGGESTIONS_LIMIT) that keeps the whole list
SliceToLimitKeepsAll(list) == list

\* slice(0, SUGGESTIONS_LIMIT)
SliceToLimit(list) == SubSeq(list, 1, Min(Len(list), SUGGESTIONS_LIMIT))

\* the suggestions of Hard mode before the slice
sortedSuggestions(pool, vehicle, difficulty, attempts, guess) ==
    IF difficulty # "HARD" \/ IsBlank(guess) THEN <<>>
    ELSE LET Matches(v) == matchesSearch(v.name, guess)
         IN SortSuggestions(SelectSeq(filteredByHints(uniquePool(pool, {}), vehicle, attempts),
                                      Matches),
                            normalizeForSearch(guess))

\* the suggestions of Hard mode
suggestions(pool, vehicle, difficulty, attempts, guess) ==
    SliceToLimit(sortedSuggestions(pool, vehicle, difficulty, attempts, guess))

\* pool.find(v => v.name.toLowerCase() === valueToCheck.toLowerCase()):
\* the names found, at most the first one
GuessedVehicle(valueToCheck) ==
    LET found == {i \in DOMAIN app.pool :
                     toLowerCase(app.pool[i].name) = toLowerCase(valueToCheck)}
    IN IF found = {} THEN <<>>
       ELSE <<app.pool[CHOOSE i \in found : \A j \in found : i <= j].name>>

\* the vehicles fetchMysteryVehicle can select, and the texts checkGuess can
\* be called with
VehicleDetails == {getVehicleDetails(vehicles[i]) : i \in DOMAIN vehicles}
Submittable == GuessTexts \cup {v.name : v \in VehicleDetails}

\* checkGuessMatch(valueToCheck) for each vehicle, text and difficulty of the
\* session; @@ makes the table an explicit function that is computed once
checkGuessMatchTable ==
    [q \in [valueToCheck : Submittable, vehicle : VehicleDetails, convertRoman : BOOLEAN] |->
        checkGuessMatch(q.valueToCheck, q.vehicle.name, q.vehicle.aliases, q.convertRoman)]
    @@ <<>>

\* checkGuess that ends the game only when nextAttempts exceeds MAX_ATTEMPTS
checkGuessOneMore(valueToCheck) ==
    /\ Playing /\ Interactive
    /\ IF IsBlank(valueToCheck)
       THEN /\ game' = [game EXCEPT !.toast = [kind |-> "Enter a vehicle name first!", type |-> "info"]]
            /\ UNCHANGED <<app, storage, hist>>
       ELSE IF checkGuessMatchTable[[valueToCheck |-> valueToCheck, vehicle |-> app.vehicle,
                                     convertRoman |-> convertRoman]]
       THEN /\ storage' = [storage EXCEPT !.stats = updateGameStats(storage.stats, TRUE)]
            /\ app' = handleGameOver(TRUE, game.attempts)
            /\ hist' = [hist EXCEPT !.judged = game.judged + 1, !.skipped = game.skipped]
            /\ game' = Unmounted
       ELSE IF game.attempts + 1 > MAX_ATTEMPTS
       THEN /\ storage' = [storage EXCEPT !.stats = updateGameStats(storage.stats, FALSE)]
            /\ app' = handleGameOver(FALSE, game.attempts + 1)
            /\ hist' = [hist EXCEPT !.judged = game.judged + 1, !.skipped = game.skipped]
            /\ game' = Unmounted
       ELSE /\ game' = [game EXCEPT
                          !.guessFeedbackHistory =
                              IF app.difficulty = "HARD" THEN @ \o GuessedVehicle(valueToCheck) ELSE @,
                          !.attempts = game.attempts + 1,
                          !.guess = <<>>,
                          !.judged = @ + 1,
                          !.toast = [kind |-> "Incorrect! New intel unlocked.", type |-> "error"]]
            /\ UNCHANGED <<app, storage, hist>>
    /\ UNCHANGED <<pending, callerVars>>

\* checkGuess with the trim() of its guard left out
checkGuessNoTrim(valueToCheck) ==
    /\ Playing /\ Interactive
    /\ IF valueToCheck = <<>>
       THEN /\ game' = [game EXCEPT !.toast = [kind |-> "Enter a vehicle name first!", type |-> "info"]]
            /\ UNCHANGED <<app, storage>>
       ELSE /\ game' = [game EXCEPT !.attempts = @ + 1, !.judged = @ + 1]
            /\ UNCHANGED <<app, storage>>
    /\ UNCHANGED <<pending, idleVars>>

\* checkGuess(valueToCheck)
checkGuess(valueToCheck) ==
    /\ Playing /\ Interactive
    /\ IF IsBlank(valueToCheck)
       THEN /\ game' = [game EXCEPT !.toast = [kind |-> "Enter a vehicle name first!", type |-> "info"]]
            /\ UNCHANGED <<app, storage, hist>>
       ELSE IF checkGuessMatchTable[[valueToCheck |-> valueToCheck, vehicle |-> app.vehicle,
                                     convertRoman |-> convertRoman]]
       THEN /\ storage' = [storage EXCEPT !.stats = updateGameStats(storage.stats, TRUE)]
            /\ app' = handleGameOver(TRUE, game.attempts)
            /\ hist' = [hist EXCEPT !.judged = game.judged + 1, !.skipped = game.skipped]
            /\ game' = Unmounted
       ELSE IF game.attempts + 1 >= MAX_ATTEMPTS
       THEN /\ storage' = [storage EXCEPT !.stats = updateGameStats(storage.stats, FALSE)]
            /\ app' = handleGameOver(FALSE, game.attempts + 1)
            /\ hist' = [hist EXCEPT !.judged = game.judged + 1, !.skipped = game.skipped]
            /\ game' = Unmounted
       ELSE /\ game' = [game EXCEPT
                          !.guessFeedbackHistory =
                              IF app.difficulty = "HARD" THEN @ \o GuessedVehicle(valueToCheck) ELSE @,
                          !.attempts = game.attempts + 1,
                          !.guess = <<>>,
                          !.judged = @ + 1,
                          !.toast = [kind |-> "Incorrect! New intel unlocked.", type |-> "error"]]
            /\ UNCHANGED <<app, storage, hist>>
    /\ UNCHANGED <<pending, callerVars>>

\* the SEND button, and Enter where it submits the typed text
SubmitGuess == checkGuess(game.guess)

\* a click on an entry of the Easy mode list (Enter submits its first entry)
SelectPoolItem == Playing /\ \E item \in filteredPool : checkGuess(item.name)

\* handleSkipHint that also clears the input, as a miss does
handleSkipHintClearsGuess ==
    /\ Playing /\ Interactive
    /\ game.attempts < MAX_ATTEMPTS - 1
    /\ game' = [game EXCEPT !.attempts = @ + 1,
                            !.skipped = @ + 1,
                            !.guess = <<>>,
                            !.toast = [kind |-> "Hint revealed.", type |-> "info"]]
    /\ UNCHANGED <<app, storage, pending, idleVars>>

\* handleSkipHint, behind the button that is rendered while hints are left
handleSkipHint ==
    /\ Playing /\ Interactive
    /\ game.attempts < MAX_ATTEMPTS - 1
    /\ IF game.attempts >= MAX_ATTEMPTS - 1
       THEN game' = [game EXCEPT !.toast = [kind |-> "No more hints available!", type |-> "info"]]
       ELSE game' = [game EXCEPT !.attempts = @ + 1,
                                 !.skipped = @ + 1,
                                 !.toast = [kind |-> "Hint revealed.", type |-> "info"]]
    /\ UNCHANGED <<app, storage, pending, idleVars>>

\* handleGlobalKeyDown for Ctrl+S / Cmd+S without its test of attempts
handleGlobalKeyDownNoGuard ==
    /\ Playing /\ Interactive
    /\ game' = [game EXCEPT !.attempts = @ + 1,
                            !.skipped = @ + 1,
                            !.toast = [kind |-> "Hint revealed.", type |-> "info"]]
    /\ UNCHANGED <<app, storage, pending, idleVars>>

\* handleGlobalKeyDown for Ctrl+S / Cmd+S
handleGlobalKeyDown ==
    /\ Playing /\ Interactive
    /\ IF game.attempts < MAX_ATTEMPTS - 1
       THEN game' = [game EXCEPT !.attempts = @ + 1,
                                 !.skipped = @ + 1,
                                 !.toast = [kind |-> "Hint revealed.", type |-> "info"]]
       ELSE UNCHANGED game
    /\ UNCHANGED <<app, storage, pending, idleVars>>

\* the toast closes (its button or its timer)
CloseToast ==
    /\ Playing /\ Interactive
    /\ game.toast # NoToast
    /\ game' = [game EXCEPT !.toast = NoToast]
    /\ UNCHANGED <<app, storage, pending, idleVars>>

Init ==
    /\ call = NoCall
    /\ ret = NoReturn
    /\ runs = NoRuns
    /\ SessionIdle

\* the hint cards that show their value at this number of attempts, with the
\* Class card shown at three attempts only
RevealedHintsClassAtThreeOnly(attempts) ==
    {"NATION"}
        \cup (IF attempts >= 1 THEN {"RANK"} ELSE {})
        \cup (IF attempts >= 2 THEN {"BR"} ELSE {})
        \cup (IF attempts = 3 THEN {"CLASS"} ELSE {})
        \cup (IF attempts >= 4 THEN {"ARMAMENT"} ELSE {})

\* the HintCards whose isRevealed is true at this number of attempts
RevealedHints(attempts) ==
    {"NATION"}
        \cup (IF attempts >= 1 THEN {"RANK"} ELSE {})
        \cup (IF attempts >= 2 THEN {"BR"} ELSE {})
        \cup (IF attempts >= 3 THEN {"CLASS"} ELSE {})
        \cup (IF attempts >= 4 THEN {"ARMAMENT"} ELSE {})

\* the page built with the remote apiService
InitRemote ==
    /\ call = NoCall
    /\ ret = NoReturn
    /\ runs = NoRuns
    /\ app = AppInit
    /\ game = Unmounted
    /\ storage = StorageInit
    /\ pending = NoPending
    /\ hist = NoHistory
    /\ api = "remote"

TypeGuess == \E text \in GuessTexts : handleInputChange(text)

Next ==
    \/ ClickEasy
    \/ ClickHard
    \/ ClickDaily
    \/ StartGameResume
    \/ ClickHeader
    \/ handleReturnToMenu
    \/ TypeGuess
    \/ SubmitGuess
    \/ SelectPoolItem
    \/ handleSkipHint
    \/ handleGlobalKeyDown
    \/ CloseToast

Spec == Init /\ [][Next]_vars

SpecRemote == InitRemote /\ [][Next]_vars

----------------------------------------------------------------------------
(* Callers of the library functions.  A caller picks arguments out of a    *)
(* bounded set, makes the call and keeps what it returned.                 *)

\* all strings over the alphabet of length at most n
Strings(alphabet, n) == UNION {[1..k -> alphabet] : k \in 0..n}

\* a caller of a library function before its call: nothing else goes on
CallerIdle == ret = NoReturn /\ runs = NoRuns /\ SessionIdle

Returned == ret # NoReturn

\* ---- levenshtein ----

LevMaxLen == 3
LevAlphabet == {"a", "b"}
LevStrings == Strings(LevAlphabet, LevMaxLen)

InitLev ==
    /\ call \in {[fn |-> "levenshtein", a |-> a, b |-> b, c |-> c] :
                    a \in LevStrings, b \in LevStrings, c \in LevStrings}
    /\ CallerIdle

CallLevenshtein ==
    /\ call.fn = "levenshtein" /\ ret = NoReturn
    /\ ret' = [ab |-> levenshtein(call.a, call.b), ba |-> levenshtein(call.b, call.a),
               bc |-> levenshtein(call.b, call.c), ac |-> levenshtein(call.a, call.c),
               aa |-> levenshtein(call.a, call.a), ea |-> levenshtein(<<>>, call.a)]
    /\ UNCHANGED <<call, runs, sessionVars>>

NextLev == CallLevenshtein
SpecLev == InitLev /\ [][NextLev]_vars

\* ---- normalize ----

NormMaxLen == 3
NormAlphabet == {"i", "v", "I", "a", "1", "-", "."}
NormStrings == Strings(NormAlphabet, NormMaxLen)

InitNorm ==
    /\ call \in {[fn |-> "normalize", s |-> s, r |-> r] : s \in NormStrings, r \in BOOLEAN}
    /\ CallerIdle

CallNormalize ==
    /\ call.fn = "normalize" /\ ret = NoReturn
    /\ ret' = [once |-> normalize(call.s, call.r),
               twice |-> normalize(normalize(call.s, call.r), call.r)]
    /\ UNCHANGED <<call, runs, sessionVars>>

NextNorm == CallNormalize
SpecNorm == InitNorm /\ [][NextNorm]_vars

\* ---- tokenize and normalize on the same string ----

RomanMaxLen == 3
RomanAlphabet == {"i", "v", "x", "a", "-", " "}
Constructor == <<"c","o","n","s","t","r","u","c","t","o","r">>
RomanStrings ==
    Strings(RomanAlphabet, RomanMaxLen)
        \cup {Constructor, <<"V","I","I","I">>, <<"P","z"," ","I","V">>,
              <<"T","-","3","4"," ","c","o","n","s","t","r","u","c","t","o","r">>}

InitRoman ==
    /\ call \in {[fn |-> "tokenize", s |-> s, r |-> r] : s \in RomanStrings, r \in BOOLEAN}
    /\ CallerIdle

CallTokenize ==
    /\ call.fn = "tokenize" /\ ret = NoReturn
    /\ ret' = [tokens |-> tokenize(call.s, call.r), normalized |-> normalize(call.s, call.r)]
    /\ UNCHANGED <<call, runs, sessionVars>>

NextRoman == CallTokenize
SpecRoman == InitRoman /\ [][NextRoman]_vars

\* ---- formatName ----

FormatMaxLen == 7
FormatAlphabet == {"t", "4", "_"}
FormatIds == Strings(FormatAlphabet, FormatMaxLen) \cup {vehicles[i].id : i \in DOMAIN vehicles}
FormatCountries == {<<"t">>, <<"u","s","s","r">>, <<"c","h","i","n","a">>}

InitFormat ==
    /\ call \in {[fn |-> "formatName", id |-> id, country |-> c] :
                    id \in FormatIds, c \in FormatCountries}
    /\ CallerIdle

CallFormatName ==
    /\ call.fn = "formatName" /\ ret = NoReturn
    /\ ret' = [value |-> formatName(call.id, call.country)]
    /\ UNCHANGED <<call, runs, sessionVars>>

NextFormat == CallFormatName
SpecFormat == InitFormat /\ [][NextFormat]_vars

\* ---- generateAliases ----

AliasMaxLen == 3
AliasNameAlphabet == {"a", "T", "-", " "}
AliasIdAlphabet == {"a", "B", "_"}
PzkpfwIV == <<"P","z","k","p","f","w"," ","I","V">>
GermPzkpfwIv == <<"g","e","r","m","_","p","z","k","p","f","w","_","i","v">>
AliasNames == Strings(AliasNameAlphabet, AliasMaxLen) \cup {PzkpfwIV}
AliasIds == Strings(AliasIdAlphabet, AliasMaxLen) \cup {GermPzkpfwIv}

InitAlias ==
    /\ call \in {[fn |-> "generateAliases", name |-> n, id |-> i] :
                    n \in AliasNames, i \in AliasIds}
    /\ CallerIdle

CallGenerateAliases ==
    /\ call.fn = "generateAliases" /\ ret = NoReturn
    /\ ret' = [value |-> generateAliases(call.name, call.id)]
    /\ UNCHANGED <<call, runs, sessionVars>>

NextAlias == CallGenerateAliases
SpecAlias == InitAlias /\ [][NextAlias]_vars

\* ---- isFuzzyMatch, isTokenMatch, checkGuessMatch ----

FuzzyMaxLen == 7
Gaz4m == <<"g","a","z","4","m">>
Gazdshk == <<"g","a","z","d","s","h","k">>
Mardar == <<"m","a","r","d","a","r">>
Marder == <<"m","a","r","d","e","r">>
Marder1a3 == <<"m","a","r","d","e","r","1","a","3">>
MarderSp1a3 == <<"m","a","r","d","e","r"," ","1","a","3">>
FuzzyLiterals == {Gaz4m, Gazdshk, Mardar, Marder, Marder1a3, MarderSp1a3}
FuzzyShort == Strings({"a", "I", "v", "-", "4", "."}, 2)
FuzzyInputs == Strings({"a", "b"}, FuzzyMaxLen) \cup FuzzyShort \cup FuzzyLiterals
FuzzyTargets == Strings({"a"}, FuzzyMaxLen) \cup FuzzyShort \cup FuzzyLiterals

TokMaxLen == 3
Tokens == {<<"a">>, <<"b">>, <<"1","a","3">>}
TokenLists == Strings(Tokens, TokMaxLen)

MatchMaxAliases == 2
GazDshk == <<"G","a","z"," ","D","s","h","k">>
GazSp4m == <<"G","a","z"," ","4","m">>
Gaz == <<"g","a","z">>
T3485 == <<"T","-","3","4","-","8","5">>
T34 == <<"t"," ","3","4">>
PzIV == <<"P","z"," ","I","V">>
Pz4 == <<"p","z","4">>
Blank == <<" ">>
GuessPool == {GazDshk, GazSp4m, Gaz, T3485, T34, PzIV, Pz4, Blank}
AliasLists == Strings(GuessPool, MatchMaxAliases)

InitFuzzy ==
    /\ call \in {[fn |-> "isFuzzyMatch", input |-> i, target |-> t, r |-> r] :
                    i \in FuzzyInputs, t \in FuzzyTargets, r \in BOOLEAN}
    /\ CallerIdle

InitToken ==
    /\ call \in {[fn |-> "isTokenMatch", tokensA |-> A, tokensB |-> B] :
                    A \in TokenLists, B \in TokenLists}
    /\ CallerIdle

\* the calls Game makes for a vehicle that getVehicleDetails has returned
VehicleCalls ==
    {[fn |-> "checkGuessMatch", guess |-> g,
      name |-> getVehicleDetails(vehicles[i]).name,
      aliases |-> getVehicleDetails(vehicles[i]).aliases, r |-> r] :
        g \in GuessPool, i \in DOMAIN vehicles, r \in BOOLEAN}

\* display names that the pool of guesses does not hold
Dash == <<"-">>
RomanIV == <<"I","V">>
M1 == <<"M","1">>
NamePool == {Dash, RomanIV, M1}

\* the guess is the display name of the target
ExactNameCalls ==
    {[fn |-> "checkGuessMatch", guess |-> n, name |-> n, aliases |-> al, r |-> r] :
        n \in NamePool, al \in AliasLists, r \in BOOLEAN}

InitMatch ==
    /\ call \in {[fn |-> "checkGuessMatch", guess |-> g, name |-> n, aliases |-> al, r |-> r] :
                    g \in GuessPool, n \in GuessPool, al \in AliasLists, r \in BOOLEAN}
                \cup VehicleCalls \cup ExactNameCalls
    /\ CallerIdle

CallIsFuzzyMatch ==
    /\ call.fn = "isFuzzyMatch" /\ ret = NoReturn
    /\ ret' = [value |-> isFuzzyMatch(call.input, call.target, call.r)]
    /\ UNCHANGED <<call, runs, sessionVars>>

CallIsTokenMatch ==
    /\ call.fn = "isTokenMatch" /\ ret = NoReturn
    /\ ret' = [value |-> isTokenMatch(call.tokensA, call.tokensB)]
    /\ UNCHANGED <<call, runs, sessionVars>>

CallCheckGuessMatch ==
    /\ call.fn = "checkGuessMatch" /\ ret = NoReturn
    /\ ret' = [value |-> checkGuessMatch(call.guess, call.name, call.aliases, call.r)]
    /\ UNCHANGED <<call, runs, sessionVars>>

NextFuzzy == CallIsFuzzyMatch
SpecFuzzy == InitFuzzy /\ [][NextFuzzy]_vars

NextToken == CallIsTokenMatch
SpecToken == InitToken /\ [][NextToken]_vars

NextMatch == CallCheckGuessMatch
SpecMatch == InitMatch /\ [][NextMatch]_vars

\* ---- fetchMysteryVehicle, called by independent runs ----

NumRuns == 2
RunIds == 1..NumRuns
Difficulties == {"EASY", "HARD"}
Date1 == <<"2","0","2","6","-","1","1","-","0","2">>
Date2 == <<"2","0","2","6","-","1","1","-","0","3">>
Date3 == <<"2","0","2","6","-","1","1","-","0","4">>
SeedPool == {NoSeed, SeedOf(<<>>), SeedOf(Date1), SeedOf(Date2), SeedOf(Date3), SeedOf(<<"a">>)}

InitSeed ==
    /\ runs \in [RunIds -> {[pc |-> "called", seed |-> sd, difficulty |-> d,
                             draws |-> <<>>, result |-> NoReturn] :
                                sd \in SeedPool, d \in Difficulties}]
    /\ call = [fn |-> "fetchMysteryVehicle"]
    /\ ret = NoReturn
    /\ SessionIdle

\* one run of fetchMysteryVehicle(difficulty, seed), up to its return
FetchMysteryVehicle(r) ==
    /\ runs[r].pc = "called"
    /\ \E draw \in FirstDraws(runs[r].seed) :
          runs' = [runs EXCEPT ![r].pc = "settled",
                               ![r].draws = IF Len(vehicles) = 0 THEN <<>> ELSE <<draw>>,
                               ![r].result = FetchOutcome(vehicles, draw)]
    /\ UNCHANGED <<call, ret, sessionVars>>

NextSeed == \E r \in RunIds : FetchMysteryVehicle(r)
SpecSeed == InitSeed /\ [][NextSeed]_vars

\* ---- one SeededRandom object: new SeededRandom(seedStr), then next() ----

\* the length of the seed strings
RandomMaxLen == 3

\* the number of next() calls on one generator
MaxDraws == 3

RandomSeeds == Strings({"0", "1", "-", "a"}, RandomMaxLen) \cup {Date1, Date2, Date3}

InitRandom ==
    /\ call \in {[fn |-> "SeededRandom", seedStr |-> str] : str \in RandomSeeds}
    /\ CallerIdle

\* the constructor: this.seed = h >>> 0
SeededRandomConstructor ==
    /\ call.fn = "SeededRandom" /\ ret = NoReturn
    /\ ret' = [seed |-> SeededRandomNew(call.seedStr), draws |-> <<>>]
    /\ UNCHANGED <<call, runs, sessionVars>>

\* next(): the numerator of the draw is kept, the draw is numerator / 2^32
SeededRandomNext ==
    /\ call.fn = "SeededRandom" /\ ret # NoReturn
    /\ Len(ret.draws) < MaxDraws
    /\ ret' = [seed |-> SeedAfterNext(ret.seed),
               draws |-> Append(ret.draws, SeededNext(ret.seed))]
    /\ UNCHANGED <<call, runs, sessionVars>>

NextRandom == SeededRandomConstructor \/ SeededRandomNext
SpecRandom == InitRandom /\ [][NextRandom]_vars

\* the caller of suggestions: Game renders in Hard or Easy mode with a pool, the
\* target, the attempts made and the text typed

\* the number of vehicles the pools are cut from
SugPoolSize == 16

DecimalDigit(d) == <<"0", "1", "2", "3", "4", "5", "6", "7", "8", "9">>[d + 1]

\* the decimal digits of a number below 100
DecimalString(n) ==
    IF n < 10 THEN <<DecimalDigit(n)>>
    ELSE <<DecimalDigit(n \div 10), DecimalDigit(n % 10)>>

\* the k-th entry of the pool: a vehicle of China and two of the USSR carry the
\* name T-1, the others are T-2, T-3, ... of the USSR in two ranks and two
\* types
SugVehicle(k) ==
    [name |-> <<"T", "-">> \o DecimalString(IF k <= 3 THEN 1 ELSE k - 2),
     nation |-> IF k = 1 THEN "China" ELSE "USSR",
     rank |-> IF k % 5 = 0 THEN "II" ELSE "I",
     vehicleType |-> IF k % 7 = 0 THEN "SPAA" ELSE "TANK"]

SugPools ==
    {[n \in 1..(j - i + 1) |-> SugVehicle(i + n - 1)] :
        i \in 1..SugPoolSize, j \in 1..SugPoolSize} \ {<<>>}

SugGuesses ==
    {<<>>, <<" ">>, <<"t">>, <<"t", "-", "1">>, <<"T", " ", "1">>, <<"4">>, <<"x">>}

InitSuggest ==
    /\ call \in {[fn |-> "suggestions", pool |-> pool, vehicle |-> vehicle,
                  difficulty |-> difficulty, attempts |-> attempts, guess |-> guess] :
                    pool \in {q \in SugPools : Len(q) > 0},
                    vehicle \in {SugVehicle(k) : k \in 1..SugPoolSize},
                    difficulty \in Difficulties,
                    attempts \in 0..(MAX_ATTEMPTS - 1),
                    guess \in SugGuesses}
    /\ call.vehicle \in Range(call.pool)
    /\ CallerIdle

\* the useMemo of the suggestions runs; the list before the slice is kept
\* beside the value
CallSuggestions ==
    /\ call.fn = "suggestions" /\ ret = NoReturn
    /\ ret' = [value |-> suggestions(call.pool, call.vehicle, call.difficulty,
                                     call.attempts, call.guess),
               sorted |-> sortedSuggestions(call.pool, call.vehicle, call.difficulty,
                                            call.attempts, call.guess)]
    /\ UNCHANGED <<call, runs, sessionVars>>

NextSuggest == CallSuggestions
SpecSuggest == InitSuggest /\ [][NextSuggest]_vars

\* the caller of updateGameStats: the calls follow each other on the stats
\* kept in the storage, which start as DEFAULT_GAME_STATS

\* the number of calls of updateGameStats
MaxStatsCalls == 8

InitStats ==
    /\ call = [fn |-> "updateGameStats"]
    /\ CallerIdle

CallUpdateGameStats(won) ==
    /\ call.fn = "updateGameStats"
    /\ storage.stats.gamesPlayed < MaxStatsCalls
    /\ call' = [fn |-> "updateGameStats", won |-> won]
    /\ ret' = [value |-> updateGameStats(storage.stats, won)]
    /\ storage' = [storage EXCEPT !.stats = updateGameStats(storage.stats, won)]
    /\ UNCHANGED <<runs, app, game, pending, hist, api>>

NextStats == \E won \in BOOLEAN : CallUpdateGameStats(won)
SpecStats == InitStats /\ [][NextStats]_vars

\* the caller that guesses one part of the identifier of the target: the
\* target gets its name and aliases as in getVehicleDetails, and the guess is
\* judged by checkGuessMatch

\* the length of the identifiers
SegMaxLen == 4

SegAlphabet == {"a", "i", "4", "_", "-"}

\* id.split('_')
IdParts(id) == SplitOn(id, "_", <<>>)

SegIds ==
    {id \in Strings(SegAlphabet, SegMaxLen) : Len(IdParts(id)) > 1}
        \cup {<<"a","_","-","_","a">>}

SegTargets ==
    {[id |-> id, country |-> c] : id \in SegIds, c \in {<<"a">>, <<"u","s","s","r">>}}
        \cup {[id |-> vehicles[i].id, country |-> vehicles[i].country] : i \in DOMAIN vehicles}

InitSegment ==
    /\ call \in {c \in [fn : {"guessIdPart"}, target : SegTargets, part : 1..(SegMaxLen + 1),
                         r : BOOLEAN] :
                    /\ c.part \in DOMAIN IdParts(c.target.id)
                    /\ IdParts(c.target.id)[c.part] # <<>>}
    /\ CallerIdle

CallGuessIdPart ==
    /\ call.fn = "guessIdPart" /\ ret = NoReturn
    /\ LET name == formatName(call.target.id, call.target.country)
       IN ret' = [value |-> checkGuessMatch(IdParts(call.target.id)[call.part], name,
                                            generateAliases(name, call.target.id), call.r)]
    /\ UNCHANGED <<call, runs, sessionVars>>

NextSegment == CallGuessIdPart
SpecSegment == InitSegment /\ [][NextSegment]_vars

----------------------------------------------------------------------------
(* Edit distance, by its definition: the length of the shortest chain of   *)
(* single-character insertions, deletions and substitutions.               *)

\* the strings one edit away from s, with characters of the alphabet
OneEdit(s, alphabet) ==
    {SubSeq(s, 1, i - 1) \o SubSeq(s, i + 1, Len(s)) : i \in 1..Len(s)}
    \cup {SubSeq(s, 1, i - 1) \o <<c>> \o SubSeq(s, i + 1, Len(s)) :
              i \in 1..Len(s), c \in alphabet}
    \cup {SubSeq(s, 1, i) \o <<c>> \o SubSeq(s, i + 1, Len(s)) :
              i \in 0..Len(s), c \in alphabet}

RECURSIVE EditBall(_, _, _, _)
\* the strings at most k edits away from s; a shortest chain never leaves
\* the strings of length at most maxLen = max(|a|, |b|)
EditBall(s, k, alphabet, maxLen) ==
    IF k = 0 THEN {s}
    ELSE LET prev == EditBall(s, k - 1, alphabet, maxLen)
         IN prev \cup {t \in UNION {OneEdit(u, alphabet) : u \in prev} : Len(t) <= maxLen}

\* b is at most k edits away from a: a chain of k edits has a middle string,
\* at most k - k/2 edits from a and at most k/2 edits from b
WithinEdits(a, b, k) ==
    LET alphabet == Range(a) \cup Range(b)
        maxLen == Max(Len(a), Len(b))
    IN EditBall(a, k - (k \div 2), alphabet, maxLen)
           \cap EditBall(b, k \div 2, alphabet, maxLen) # {}

MinEdits(a, b) ==
    CHOOSE k \in 0..Max(Len(a), Len(b)) :
        /\ WithinEdits(a, b, k)
        /\ \A m \in 0..(k - 1) : ~WithinEdits(a, b, m)

\* C5: levenshtein(a, b) is the minimum number of single-character
\* insertions, deletions and substitutions that turn a into b; hence
\* levenshtein(s, s) = 0, levenshtein(a, b) = levenshtein(b, a),
\* levenshtein("", s) = len(s), and the triangle inequality holds.
C5_LevenshteinIsEditDistance ==
    (call.fn = "levenshtein" /\ Returned) =>
        /\ ret.ab = MinEdits(call.a, call.b)
        /\ ret.aa = 0
        /\ ret.ab = ret.ba
        /\ ret.ea = Len(call.a)
        /\ ret.ac <= ret.ab + ret.bc

\* an insertion and a substitution are both needed
C5_Witness ==
    /\ call.fn = "levenshtein" /\ Returned
    /\ Len(call.a) = 2 /\ Len(call.b) = 3
    /\ ret.ab = 2
    /\ ret.ac = ret.ab + ret.bc /\ ret.bc > 0

\* C6: normalize is idempotent: normalize(normalize(s, r), r) = normalize(s, r)
C6_NormalizeIdempotent ==
    (call.fn = "normalize" /\ Returned) => ret.twice = ret.once

\* C1: a non-blank guess is judged a match iff isFuzzyMatch or isTokenMatch
\* holds against the name or against at least one alias; the order of the
\* aliases does not matter (the right-hand side reads them as a set).
C1_MatchIffNameOrSomeAlias ==
    (call.fn = "checkGuessMatch" /\ Returned /\ ~IsBlank(call.guess)) =>
        (ret.value <=>
            \/ isFuzzyMatch(call.guess, call.name, call.r)
            \/ isTokenMatch(tokenize(call.guess, call.r), tokenize(call.name, call.r))
            \/ \E alias \in Range(call.aliases) :
                  \/ isFuzzyMatch(call.guess, alias, call.r)
                  \/ isTokenMatch(tokenize(call.guess, call.r), tokenize(alias, call.r)))

\* the name and the first alias miss, the second alias hits
C1_Witness ==
    /\ call.fn = "checkGuessMatch" /\ Returned /\ ~IsBlank(call.guess)
    /\ ret.value
    /\ Len(call.aliases) = 2
    /\ ~checkGuessMatch(call.guess, call.name, <<call.aliases[1]>>, call.r)

\* C2: isFuzzyMatch is true exactly when the normalized forms are identical,
\* or L > 6 and their edit distance is at most 2, or L > 3 and it is at most
\* 1 (L the longer normalized length); two different normalized strings of
\* length at most 3 never match, and "gaz4m" does not match "gazdshk".
C2_FuzzyThresholds ==
    (call.fn = "isFuzzyMatch" /\ Returned) =>
        LET nI == normalize(call.input, call.r)
            nT == normalize(call.target, call.r)
            L == Max(Len(nI), Len(nT))
        IN /\ ret.value <=> \/ nI = nT
                            \/ L > 6 /\ WithinEdits(nI, nT, 2)
                            \/ L > 3 /\ WithinEdits(nI, nT, 1)
           /\ (nI # nT /\ Len(nI) <= 3 /\ Len(nT) <= 3) => ~ret.value
           /\ (call.input = Gaz4m /\ call.target = Gazdshk) => ~ret.value

\* two edits are accepted at length 7
C2_Witness ==
    /\ call.fn = "isFuzzyMatch" /\ Returned
    /\ ret.value
    /\ Len(normalize(call.input, call.r)) = 7
    /\ levenshtein(normalize(call.input, call.r), normalize(call.target, call.r)) = 2

\* C3: isTokenMatch(A, B) is true exactly when both token lists are
\* non-empty and every token of A occurs in B or every token of B occurs in
\* A; if either list is empty the result is false.
C3_TokenSubset ==
    (call.fn = "isTokenMatch" /\ Returned) =>
        /\ ret.value <=> /\ call.tokensA # <<>>
                         /\ call.tokensB # <<>>
                         /\ \/ Range(call.tokensA) \subseteq Range(call.tokensB)
                            \/ Range(call.tokensB) \subseteq Range(call.tokensA)
        /\ (call.tokensA = <<>> \/ call.tokensB = <<>>) => ~ret.value

\* an empty list against a non-empty one has been judged
C3_Witness ==
    /\ call.fn = "isTokenMatch" /\ Returned
    /\ call.tokensA = <<>> /\ Len(call.tokensB) = 2
    /\ ~ret.value

\* C7: generateAliases(name, id) is non-empty, contains name.toLowerCase()
\* and has no duplicate entries.
C7_AliasesContainNameNoDuplicates ==
    (call.fn = "generateAliases" /\ Returned) =>
        /\ Len(ret.value) > 0
        /\ \E i \in DOMAIN ret.value : ret.value[i] = toLowerCase(call.name)
        /\ \A i, j \in DOMAIN ret.value : ret.value[i] = ret.value[j] => i = j

\* a name with an upper-case letter whose hyphen-free variant repeats the name
C7_Witness ==
    /\ call.fn = "generateAliases" /\ Returned
    /\ \E i \in DOMAIN call.name : IsUpper(call.name[i])
    /\ RemoveChars(toLowerCase(call.name), {"-"}) = toLowerCase(call.name)
    /\ Len(ret.value) >= 3

\* C8: no entry of generateAliases(name, id) is the empty string.
C8_NoEmptyAlias ==
    (call.fn = "generateAliases" /\ Returned) =>
        \A i \in DOMAIN ret.value : ret.value[i] # <<>>

\* two runs have settled with the same seed string
SameSeedSettled(r1, r2) ==
    /\ runs[r1].pc = "settled" /\ runs[r2].pc = "settled"
    /\ runs[r1].seed.given /\ runs[r1].seed = runs[r2].seed

\* C9 as stated: any two runs with the same seed string make the same draws,
\* select the same target and yield the same display name and alias list.
C9_SameSeedSameTarget ==
    \A r1 \in DOMAIN runs, r2 \in DOMAIN runs :
        SameSeedSettled(r1, r2) =>
            /\ runs[r1].draws = runs[r2].draws
            /\ runs[r1].result = runs[r2].result

\* the guess is empty or consists of white space only
WhitespaceOnly(value) == \A i \in DOMAIN value : value[i] \in {" ", "\t"}

\* C4: submitting an empty or whitespace-only guess is not judged and leaves
\* the attempts counter, the revealed hints, the stored game stats and the
\* game state (PLAYING) unchanged.
C4_BlankGuessIsNoOp ==
    [][(Playing /\ WhitespaceOnly(game.guess) /\ SubmitGuess) =>
          /\ game'.attempts = game.attempts
          /\ game'.judged = game.judged
          /\ game'.guessFeedbackHistory = game.guessFeedbackHistory
          /\ storage' = storage
          /\ app' = app
          /\ app'.gameState = "PLAYING"]_vars

\* a blank guess has been submitted in a game that has counted a miss before
C4_Witness ==
    /\ Playing
    /\ game.toast.kind = "Enter a vehicle name first!"
    /\ game.guess = <<" ">>
    /\ game.judged >= 1

\* the identifier of the vehicle displayed as "Gaz Dshk"
UssrGazDshk == <<"u","s","s","r","_","g","a","z","_","d","s","h","k">>

\* C10: with the target displayed as "Gaz Dshk" and the aliases that
\* generateAliases produces for its identifier, the guess "Gaz 4m", which
\* shares only the first word with the name, is not accepted as a match.
C10_SharedFirstWordRejected ==
    (/\ call.fn = "checkGuessMatch" /\ Returned
     /\ call.guess = GazSp4m
     /\ call.name = GazDshk
     /\ call.aliases = generateAliases(GazDshk, UssrGazDshk)) => ~ret.value

----------------------------------------------------------------------------
(* The session: daily challenge, hints, attempts, stats, loads.            *)

\* C11: the daily challenge is played at most once per calendar day: for any
\* sequence of starts, guesses, skips and returns to the menu through any
\* button, a daily-seeded game enters PLAYING at most once on the same day.
C11_DailyPlayedAtMostOnce == hist.dailyPlays <= 1

\* C12: Nation is revealed from the start, Rank iff attempts >= 1, Battle
\* Rating iff attempts >= 2, Class iff attempts >= 3, Armament iff
\* attempts >= 4; within one game attempts never decreases, so the set of
\* revealed hints only grows.
C12_HintsOnlyGrow ==
    [][/\ Playing' =>
            /\ "NATION" \in RevealedHints(game'.attempts)
            /\ ("RANK" \in RevealedHints(game'.attempts)) <=> (game'.attempts >= 1)
            /\ ("BR" \in RevealedHints(game'.attempts)) <=> (game'.attempts >= 2)
            /\ ("CLASS" \in RevealedHints(game'.attempts)) <=> (game'.attempts >= 3)
            /\ ("ARMAMENT" \in RevealedHints(game'.attempts)) <=> (game'.attempts >= 4)
       /\ (Playing /\ Playing') =>
            /\ game'.attempts >= game.attempts
            /\ RevealedHints(game.attempts) \subseteq RevealedHints(game'.attempts)]_vars

\* all five hints are revealed, after a miss and a skipped hint
C12_Witness ==
    /\ Playing
    /\ RevealedHints(game.attempts) = {"NATION", "RANK", "BR", "CLASS", "ARMAMENT"}
    /\ game.judged >= 1
    /\ game.skipped >= 1

\* the game that ended last was won
Won == app.gameState = "VICTORY"

C15_SkipOnlyRaisesAttempts ==
    [][(handleSkipHint \/ handleGlobalKeyDown) =>
          /\ IF game.attempts < MAX_ATTEMPTS - 1
             THEN /\ game'.attempts = game.attempts + 1
                  /\ game'.judged = game.judged
                  /\ game'.guess = game.guess
                  /\ game'.guessFeedbackHistory = game.guessFeedbackHistory
             ELSE game' = game
          /\ app' = app
          /\ Playing'
          /\ storage' = storage
          /\ game'.stats = game.stats]_vars

\* a hint was skipped with a guess typed in and feedback of a miss on display
C15_Witness ==
    /\ Playing
    /\ game.toast.kind = "Hint revealed."
    /\ game.skipped >= 1
    /\ game.guess # <<>>
    /\ game.guessFeedbackHistory # <<>>

\* the step ends a game in progress
GameEnds == Playing /\ app'.gameState \in {"VICTORY", "GAME_OVER"}

\* C16: the stored game stats are updated exactly once per game that ends in
\* VICTORY or GAME_OVER, and only then: no sequence of UI events (submits,
\* return to menu, leaving a game through the header button) stores a game
\* twice or stores a game that did not end.
C16_StatsStoredOncePerEndedGame ==
    [][/\ (storage' # storage) <=> GameEnds
       /\ GameEnds => storage'.stats.gamesPlayed = storage.stats.gamesPlayed + 1
       /\ (app'.gameState \in {"VICTORY", "GAME_OVER"} /\ app'.gameState # app.gameState)
              => GameEnds]_vars

\* a game was left through the header button, the next one was lost, and the
\* player is back at the menu: one game is stored
C16_Witness ==
    /\ app.gameState = "MENU"
    /\ hist.dailyPlays = 2
    /\ hist.judged = MAX_ATTEMPTS
    /\ storage.stats.gamesPlayed = 1
    /\ storage.stats.wins = 0

\* C17: while a game is PLAYING the target vehicle and the pool are never
\* replaced: the completion of an earlier or concurrent startGame load
\* changes neither vehicle, pool nor gameState of a game in progress, and a
\* load that completes after the player went back to MENU does not move the
\* state to PLAYING.
C17_LoadsLeaveGameAlone ==
    [][/\ (Playing /\ StartGameResume) => app' = app
       /\ (Playing /\ Playing') => (app'.vehicle = app.vehicle /\ app'.pool = app.pool)
       /\ (app.gameState = "MENU") => (app'.gameState # "PLAYING")]_vars

\* C18: after any sequence of updateGameStats(won) calls from the default
\* stats, wins <= gamesPlayed and currentStreak <= maxStreak <= wins; each
\* call raises gamesPlayed by one, a loss sets currentStreak to 0, a win
\* raises wins and currentStreak by one, and maxStreak never decreases.
C18_StatsStayConsistent ==
    [][(call'.fn = "updateGameStats" /\ ret' # ret) =>
          /\ storage'.stats = ret'.value
          /\ storage'.stats.wins <= storage'.stats.gamesPlayed
          /\ storage'.stats.currentStreak <= storage'.stats.maxStreak
          /\ storage'.stats.maxStreak <= storage'.stats.wins
          /\ storage'.stats.gamesPlayed = storage.stats.gamesPlayed + 1
          /\ storage'.stats.maxStreak >= storage.stats.maxStreak
          /\ IF call'.won
             THEN /\ storage'.stats.wins = storage.stats.wins + 1
                  /\ storage'.stats.currentStreak = storage.stats.currentStreak + 1
             ELSE /\ storage'.stats.wins = storage.stats.wins
                  /\ storage'.stats.currentStreak = 0]_vars

\* two wins, a loss and a win have been stored
C18_Witness ==
    /\ call.fn = "updateGameStats" /\ Returned
    /\ call.won
    /\ storage.stats = [gamesPlayed |-> 4, wins |-> 3, currentStreak |-> 1, maxStreak |-> 2]

\* C19: the game is always winnable: for every target whose display name is
\* not blank, for both values of convertRoman and any alias list, submitting
\* the exact display name is judged a match.
C19_ExactNameMatches ==
    (/\ call.fn = "checkGuessMatch" /\ Returned
     /\ call.guess = call.name
     /\ ~IsBlank(call.name)) => ret.value

\* a name without a letter or digit was submitted for itself, with no alias
C19_Witness ==
    /\ call.fn = "checkGuessMatch" /\ Returned
    /\ call.guess = Dash /\ call.name = Dash
    /\ call.aliases = <<>>
    /\ ret.value

\* the part of the identifier that the call guesses
GuessedPart == IdParts(call.target.id)[call.part]

\* C20 as stated: for every identifier with more than one underscore-separated
\* part and the display name and aliases derived from it, a guess equal to
\* any one non-empty part of the identifier (the nation prefix included) is
\* judged a match.
C20_AnyIdPartMatches ==
    (call.fn = "guessIdPart" /\ Returned) => ret.value

\* C20, amended: as above, for the parts that tokenize splits into at least
\* one token, that is, the parts that hold a character other than white
\* space, "-", "_", "/", "(" and ")".
C20_AnyIdPartWithTokenMatches ==
    (/\ call.fn = "guessIdPart" /\ Returned
     /\ tokenize(GuessedPart, call.r) # <<>>) => ret.value

\* the nation prefix of "ussr_gaz_dshk" was guessed and judged a match
C20_Witness ==
    /\ call.fn = "guessIdPart" /\ Returned
    /\ call.target.id = UssrGazDshk
    /\ GuessedPart = <<"u","s","s","r">>
    /\ ret.value

----------------------------------------------------------------------------
(* Roman numerals, formatName, the seeded generator, suggestions, loads.   *)

\* the ten Roman numerals, each at the index of its value
Numerals ==
    << <<"i">>, <<"i","i">>, <<"i","i","i">>, <<"i","v">>, <<"v">>, <<"v","i">>,
       <<"v","i","i">>, <<"v","i","i","i">>, <<"i","x">>, <<"x">> >>

\* the Arabic digits of a Roman numeral
ArabicOf(numeral) == NumToString(CHOOSE k \in DOMAIN Numerals : Numerals[k] = numeral)

\* the token that the claim expects in place of a token
ExpectedToken(token, convertRoman_) ==
    IF convertRoman_ /\ token \in Range(Numerals) THEN ArabicOf(token) ELSE token

\* C21: with convertRoman enabled, tokenize and normalize replace exactly the
\* separator-delimited tokens that equal one of the ten Roman numerals i..x
\* by their Arabic digits (x becomes 10) and return every other token
\* unchanged as a string; with convertRoman disabled no token is replaced.
\* So a guess written with a Roman numeral token and the same guess written
\* with the Arabic number normalize to the same string in hard mode.
C21_OnlyRomanNumeralsReplaced ==
    (call.fn = "tokenize" /\ Returned) =>
        LET lowered == toLowerCase(call.s)
            plain == DropEmpty(SplitDrop(lowered, <<>>))
            parts == SplitKeep(lowered, <<>>, FALSE)
            arabic == Concat([i \in DOMAIN parts |-> ExpectedToken(parts[i], TRUE)])
        IN /\ ret.tokens = [i \in DOMAIN plain |-> ExpectedToken(plain[i], call.r)]
           /\ ret.normalized =
                 StripNonAlnum(Concat([i \in DOMAIN parts |-> ExpectedToken(parts[i], call.r)]))
           /\ call.r => ret.normalized = normalize(arabic, TRUE)

\* C22: formatName hyphenates every digit group: for every identifier and
\* country code, the returned name contains no letter or digit that is
\* immediately followed by a single space and then a digit.
C22_DigitGroupsHyphenated ==
    (call.fn = "formatName" /\ Returned) =>
        \A i \in 1..(Len(ret.value) - 2) :
            ~(/\ IsUpper(ret.value[i]) \/ IsLower(ret.value[i]) \/ IsDigit(ret.value[i])
              /\ ret.value[i + 1] = " "
              /\ IsDigit(ret.value[i + 2]))

RECURSIVE Mulberry32State(_, _)
\* the state of a Mulberry32 kept modulo 2^32, after n steps from a state
Mulberry32State(state, n) ==
    IF n = 0 THEN state
    ELSE ToUint32(AddNumber(Mulberry32State(state, n - 1), MulberryIncrement))

\* the n-th draw of that Mulberry32
Mulberry32Draw(state, n) == MulberryMix(Mulberry32State(state, n))

\* C23: the state of the seeded generator is a 32-bit unsigned integer:
\* after construction from any seed string and after every call of next(),
\* 0 <= state < 2^32, and every draw equals the draw of a reference
\* Mulberry32 whose state is kept modulo 2^32.
C23_StateIsUint32 ==
    (call.fn = "SeededRandom" /\ Returned) =>
        /\ 0 <= ret.seed[1] /\ ret.seed[1] < TwoTo16
        /\ 0 <= ret.seed[2] /\ ret.seed[2] < TwoTo16
        /\ \A n \in DOMAIN ret.draws :
               ret.draws[n] = Mulberry32Draw(SeededRandomNew(call.seedStr), n)

\* C24: in Hard mode every suggestion is a vehicle of the pool with the nation of
\* the target, with its rank once one attempt is made and its type once three
\* are made, and matches the text typed; no two suggestions have the same name
\* up to case; there are at most SUGGESTIONS_LIMIT suggestions.
C24_SuggestionsMatchHintsUniqueLimited ==
    (call.fn = "suggestions" /\ Returned /\ call.difficulty = "HARD") =>
        LET list == ret.value
        IN /\ \A i \in DOMAIN list :
                /\ list[i] \in Range(call.pool)
                /\ list[i].nation = call.vehicle.nation
                /\ call.attempts >= 1 => list[i].rank = call.vehicle.rank
                /\ call.attempts >= 3 => list[i].vehicleType = call.vehicle.vehicleType
                /\ matchesSearch(list[i].name, call.guess)
           /\ \A i, j \in DOMAIN list :
                i # j => toLowerCase(list[i].name) # toLowerCase(list[j].name)
           /\ Len(list) <= SUGGESTIONS_LIMIT

\* a pool with two entries of one name and more matches than the limit, after
\* an attempt: the list is cut to the limit
C24_Witness ==
    /\ call.fn = "suggestions" /\ Returned /\ call.difficulty = "HARD"
    /\ call.attempts >= 1
    /\ \E i, j \in DOMAIN call.pool : i # j /\ call.pool[i].name = call.pool[j].name
    /\ Len(ret.sorted) > SUGGESTIONS_LIMIT
    /\ Len(ret.value) = SUGGESTIONS_LIMIT

\* C25: in Hard mode the name of every vehicle of the pool that matches the
\* revealed hints and the text typed is in the suggestions before the slice,
\* also when a vehicle of another nation, rank or type has the same name.
C25_SuggestionsComplete ==
    (call.fn = "suggestions" /\ Returned /\ call.difficulty = "HARD"
        /\ ~IsBlank(call.guess)) =>
        \A v \in Range(call.pool) :
            (/\ v.nation = call.vehicle.nation
             /\ call.attempts >= 1 => v.rank = call.vehicle.rank
             /\ call.attempts >= 3 => v.vehicleType = call.vehicle.vehicleType
             /\ matchesSearch(v.name, call.guess)) =>
                \E i \in DOMAIN ret.sorted : ret.sorted[i].name = v.name

\* a load whose promise is rejected settles in this step
RejectedLoadSettles ==
    \E load \in BagToSet(pending) :
        load.outcome.status = "rejected" /\ pending' = pending (-) SetToBag({load})

\* startGame is called in this step
StartGameCalled == BagCardinality(pending') > BagCardinality(pending)

\* C26: when the promise of fetchMysteryVehicle is rejected, startGame ends
\* with gameState MENU and a loadingError, not with PLAYING; every call of
\* startGame sets loadingError to null with the state LOADING, before the load.
C26_FailedLoadShowsError ==
    [][/\ RejectedLoadSettles =>
            app'.gameState = "MENU" /\ app'.loadingError # "null"
       /\ StartGameCalled =>
            app'.gameState = "LOADING" /\ app'.loadingError = "null"]_vars

\* the load of a daily game was rejected: the menu shows the error and no load
\* is in flight
C26_Witness ==
    /\ app.gameState = "MENU" /\ app.loadingError # "null"
    /\ app.isDaily /\ hist.dailyPlays = 0
    /\ pending = NoPending

====
